---- MODULE Spec2Model ----
(***************************************************************************)
(* A model of the enphase-api client library: the Entrez cloud client      *)
(* (src/src/client/entrez.rs) and the Envoy gateway client                 *)
(* (src/src/client/envoy.rs), with the shared models and error kinds.      *)
(*                                                                         *)
(* Text is modelled as a sequence of one-character strings, so that        *)
(* searching, splitting and trimming are computed character by character   *)
(* as the Rust string methods compute them.  Credentials, serial numbers,  *)
(* hosts and cookie names are never inspected by the code and are opaque   *)
(* strings.                                                                *)
(*                                                                         *)
(* One action models one public method, from the request it builds to the  *)
(* value it returns.  The answer of the remote side (reqwest's send() and  *)
(* text()) is the action's nondeterministic input.                         *)
(*                                                                         *)
(* Spec lets any call follow any call and answers it in any way.  FlowSpec *)
(* makes the same calls against a gateway that keeps the relay flag it is  *)
(* sent, and records what the caller has been through.                     *)
(***************************************************************************)
EXTENDS Integers, Sequences, FiniteSets, TLC

VARIABLES
    env,      \* the process environment: ENTREZ_USERNAME, ENTREZ_PASSWORD
    entrez,   \* the Entrez client: base_url and the reqwest client's cookies
    envoy,    \* the Envoy client: base_url and the reqwest client's cookies
    wire,     \* the HTTP requests issued by the last call, in order
    resp,     \* what the transport delivered to the last call
    result,   \* the last call: operation, arguments and returned value
    device,   \* the gateway's relay: the powerForcedOff flag it stores
    history   \* what the caller has been through: the calls that came before

vars == <<env, entrez, envoy, wire, resp, result, device, history>>

----------------------------------------------------------------------------
(* Bounds of the model.                                                    *)

\* Longest run of whitespace put around a token or a diagnostic body.
MaxPad == 1

----------------------------------------------------------------------------
(* Text: the str methods the clients use.                                  *)

\* The characters str::trim removes that occur in the modelled texts.
WhiteSpace == {" ", "\n", "\t", "\r"}

\* pat occurs in s starting at index i
MatchesAt(s, pat, i) ==
    /\ i >= 1
    /\ i + Len(pat) - 1 <= Len(s)
    /\ \A k \in 1..Len(pat) : s[i + k - 1] = pat[k]

RECURSIVE FindFrom(_, _, _)
FindFrom(s, pat, i) ==
    IF i + Len(pat) - 1 > Len(s) THEN 0
    ELSE IF MatchesAt(s, pat, i) THEN i
    ELSE FindFrom(s, pat, i + 1)

\* str::find: the index of the first match, 0 for None
find(s, pat) == FindFrom(s, pat, 1)

\* str::contains
contains(s, pat) == find(s, pat) # 0

\* str::split_once: the text before and after the first match
split_once(s, pat) ==
    LET i == find(s, pat)
    IN  IF i = 0
        THEN [some |-> FALSE, before |-> <<>>, after |-> <<>>]
        ELSE [some   |-> TRUE,
              before |-> SubSeq(s, 1, i - 1),
              after  |-> SubSeq(s, i + Len(pat), Len(s))]

RECURSIVE trim_start(_)
trim_start(s) ==
    IF s # <<>> /\ Head(s) \in WhiteSpace THEN trim_start(Tail(s)) ELSE s

RECURSIVE trim_end(_)
trim_end(s) ==
    IF s # <<>> /\ s[Len(s)] \in WhiteSpace
    THEN trim_end(SubSeq(s, 1, Len(s) - 1))
    ELSE s

\* str::trim
trim(s) == trim_end(trim_start(s))

\* str::is_empty
is_empty(s) == Len(s) = 0

UpperCase == <<"A", "B", "C", "D", "E", "F", "G", "H", "I", "J", "K", "L", "M",
               "N", "O", "P", "Q", "R", "S", "T", "U", "V", "W", "X", "Y", "Z">>
LowerCase == <<"a", "b", "c", "d", "e", "f", "g", "h", "i", "j", "k", "l", "m",
               "n", "o", "p", "q", "r", "s", "t", "u", "v", "w", "x", "y", "z">>

\* str::to_lowercase on ASCII text
to_lowercase(s) ==
    [i \in 1..Len(s) |->
        IF \E k \in 1..Len(UpperCase) : UpperCase[k] = s[i]
        THEN LowerCase[CHOOSE k \in 1..Len(UpperCase) : UpperCase[k] = s[i]]
        ELSE s[i]]

\* str::replace of one character by one character
replace(s, from, to) == [i \in 1..Len(s) |-> IF s[i] = from THEN to ELSE s[i]]

Digit == <<"0", "1", "2", "3", "4", "5", "6", "7", "8", "9">>

\* Display of an unsigned integer: its decimal digits
RECURSIVE Decimal(_)
Decimal(n) ==
    IF n < 10 THEN <<Digit[n + 1]>>
    ELSE Decimal(n \div 10) \o <<Digit[(n % 10) + 1]>>

\* n copies of the character c
RECURSIVE Repeat(_, _)
Repeat(c, n) == IF n = 0 THEN <<>> ELSE <<c>> \o Repeat(c, n - 1)

----------------------------------------------------------------------------
(* Literals of the source.                                                 *)

DEFAULT_ENTREZ_URL == "https://entrez.enphaseenergy.com"

JWT_MARKER ==
    <<"i", "d", "=", "\"", "J", "W", "T", "T", "o", "k", "e", "n", "\"">>
TEXTAREA_CLOSE ==
    <<"<", "/", "t", "e", "x", "t", "a", "r", "e", "a", ">">>
VALID_TOKEN ==
    <<"V", "a", "l", "i", "d", " ", "t", "o", "k", "e", "n">>
MSG_EXTRACT_FAILED ==
    <<"F", "a", "i", "l", "e", "d", " ", "t", "o", " ", "e", "x", "t", "r",
      "a", "c", "t", " ", "t", "o", "k", "e", "n", " ", "f", "r", "o", "m",
      " ", "r", "e", "s", "p", "o", "n", "s", "e">>
MSG_AUTH_GENERIC ==
    <<"I", "n", "v", "a", "l", "i", "d", " ", "t", "o", "k", "e", "n", " ",
      "o", "r", " ", "a", "u", "t", "h", "e", "n", "t", "i", "c", "a", "t",
      "i", "o", "n", " ", "f", "a", "i", "l", "e", "d">>
MSG_JWT_CHECK_FAILED ==
    <<"J", "W", "T", " ", "c", "h", "e", "c", "k", " ", "f", "a", "i", "l",
      "e", "d", ":", " ">>
MSG_SET_POWER_FAILED ==
    <<"F", "a", "i", "l", "e", "d", " ", "t", "o", " ", "s", "e", "t", " ",
      "p", "o", "w", "e", "r", " ", "s", "t", "a", "t", "e", ":", " ", "H",
      "T", "T", "P", " ">>
PAYLOAD_HEAD ==
    <<"{", "\"", "l", "e", "n", "g", "t", "h", "\"", ":", "1", ",", "\"",
      "a", "r", "r", "\"", ":", "[">>
PAYLOAD_TAIL ==
    <<"]", "}">>
POWER_FORCED_OFF ==
    <<"p", "o", "w", "e", "r", "F", "o", "r", "c", "e", "d", "O", "f", "f">>

----------------------------------------------------------------------------
(* Results and error kinds (src/src/error.rs).                             *)

ErrorKinds == {"Http", "InvalidResponse", "AuthenticationFailed",
               "ConfigurationError", "IoError", "JsonError"}

\* the () of Result<()>
Unit == <<>>

Ok(v) == [kind |-> "Ok", err |-> "", msg |-> <<>>, value |-> v]

Err(e, m) == [kind |-> "Err", err |-> e, msg |-> m, value |-> Unit]

\* `?` on a reqwest::Error: From<reqwest::Error> gives the Http kind
FromReqwestError == Err("Http", <<>>)

\* `?` on a serde_json::Error: From<serde_json::Error> gives the JsonError kind
FromJsonError == Err("JsonError", <<>>)

----------------------------------------------------------------------------
(* The transport: what send() and text() deliver to a call.                *)

\* Status codes the remote side answers with.
StatusCodes == {200, 204, 401, 500}

NoCookie == ""
SessionCookie == "sessionId"

\* send() failed: no response at all
SendError ==
    [sent |-> FALSE, status |-> 0, set_cookie |-> NoCookie,
     text_ok |-> FALSE, body |-> <<>>]

\* send() returned a response whose body could not be read by text()
BodyError(status, cookie) ==
    [sent |-> TRUE, status |-> status, set_cookie |-> cookie,
     text_ok |-> FALSE, body |-> <<>>]

\* a completed exchange: status line, headers and body
Response(status, cookie, body) ==
    [sent |-> TRUE, status |-> status, set_cookie |-> cookie,
     text_ok |-> TRUE, body |-> body]

NoExchange == SendError

Exchanges(bodies) ==
    {SendError}
      \cup {BodyError(s, c) : s \in StatusCodes, c \in {NoCookie, SessionCookie}}
      \cup {Response(s, c, b) :
              s \in StatusCodes, c \in {NoCookie, SessionCookie}, b \in bodies}

\* variant: an error response empties the jar
store_cookies_reset(client, x) ==
    IF x.sent /\ x.status >= 400 THEN [client EXCEPT !.cookies = {}]
    ELSE IF client.cookie_store /\ x.sent /\ x.set_cookie # NoCookie
    THEN [client EXCEPT !.cookies = @ \cup {x.set_cookie}]
    ELSE client

\* a reqwest client built with cookie_store(true) keeps the cookies a
\* response sets; one built without it keeps none
store_cookies(client, x) ==
    IF client.cookie_store /\ x.sent /\ x.set_cookie # NoCookie
    THEN [client EXCEPT !.cookies = @ \cup {x.set_cookie}]
    ELSE client

\* variant: one cookie jar for the whole process, shared by both clients
Request_shared_jar(client, method, path, headers, form, body) ==
    [method  |-> method,
     url     |-> <<client.base_url>> \o path,
     headers |-> headers,
     form    |-> form,
     body    |-> body,
     cookies |-> entrez.cookies \cup envoy.cookies]

\* variant: a client that puts a stored bearer token on every request
Request_stored_token(client, method, path, headers, form, body) ==
    [method  |-> method,
     url     |-> <<client.base_url>> \o path,
     headers |-> IF \E h \in headers : h[1] = "Authorization" THEN headers
                 ELSE headers \cup {<<"Authorization", "Bearer stored">>},
     form    |-> form,
     body    |-> body,
     cookies |-> client.cookies]

\* the request as it leaves the client: the jar's cookies ride along
Request(client, method, path, headers, form, body) ==
    [method  |-> method,
     url     |-> <<client.base_url>> \o path,
     headers |-> headers,
     form    |-> form,
     body    |-> body,
     cookies |-> client.cookies]

\* variant: a request that failed or was answered 5xx sent a second time
send_retrying(request, x) ==
    IF x.sent /\ x.status < 500 THEN <<request>> ELSE <<request, request>>

\* variant: a request without a session cookie held back
send_in_session(request, x) ==
    IF request.cookies = {} THEN <<>> ELSE <<request>>

\* RequestBuilder::send, awaited once: the requests that leave the client
send(request, x) == <<request>>

----------------------------------------------------------------------------
(* Inputs of the model.                                                    *)

HTML_HEAD ==
    <<"<", "h", "t", "m", "l", ">", "<", "b", "o", "d", "y", ">">>
HTML_TAIL ==
    <<"<", "/", "b", "o", "d", "y", ">", "<", "/", "h", "t", "m", "l", ">">>
TEXTAREA_OPEN ==
    <<"<", "t", "e", "x", "t", "a", "r", "e", "a", " ">>
ROWS_ATTR ==
    <<" ", "r", "o", "w", "s", "=", "\"", "2", "\"">>
ERROR_PAGE ==
    <<"<", "h", "t", "m", "l", ">", "<", "b", "o", "d", "y", ">", "<", "p",
      ">", "E", "r", "r", "o", "r", ":", " ", "I", "n", "v", "a", "l", "i",
      "d", " ", "r", "e", "q", "u", "e", "s", "t", " ", "o", "r", " ", "u",
      "n", "a", "u", "t", "h", "o", "r", "i", "z", "e", "d", "<", "/", "p",
      ">", "<", "/", "b", "o", "d", "y", ">", "<", "/", "h", "t", "m", "l",
      ">">>
ABC123 ==
    <<"a", "b", "c", "1", "2", "3">>
XYZ ==
    <<"x", "y", "z">>
MY_SITE ==
    <<"M", "y", " ", "S", "i", "t", "e">>
TEST_SITE ==
    <<"T", "e", "s", "t", " ", "S", "i", "t", "e">>

Usernames == {"test@example.com", "wrong@example.com"}
Passwords == {"test_password"}
\* a name with capitals, doubled and leading spaces, a plus, a hyphen, a digit
MIXED_SITE == <<" ", "A", "+", "b", " ", " ", "C", "-", "1">>
SiteNames == {MY_SITE, TEST_SITE}
SerialNumbers == {"603980032"}

\* a <textarea id="JWTToken">text</textarea> element
Textarea(text) ==
    TEXTAREA_OPEN \o JWT_MARKER \o <<">">> \o text \o TEXTAREA_CLOSE

Page(inner) == HTML_HEAD \o inner \o HTML_TAIL

\* whitespace runs of up to MaxPad characters
Pads == {Repeat(c, n) : c \in {" ", "\n"}, n \in 0..MaxPad}

\* what the service puts between the tags: tokens, bare or padded
TokenTexts ==
    {l \o t \o r : l \in Pads, r \in Pads,
                   t \in {ABC123, <<"a", " ", "b">>, <<"a", ">", "b">>}}

\* pages the Entrez service answers with
EntrezBodies ==
    {<<>>, ERROR_PAGE}
      \cup {Page(Textarea(t)) : t \in TokenTexts \cup Pads}
      \cup { TEXTAREA_OPEN \o JWT_MARKER,
             TEXTAREA_OPEN \o JWT_MARKER \o <<">">> \o ABC123,
             TEXTAREA_OPEN \o JWT_MARKER \o ROWS_ATTR \o <<">">> \o ABC123
                 \o TEXTAREA_CLOSE,
             <<"<", "t", "e", "x", "t", "a", "r", "e", "a", ">">> \o ABC123
                 \o TEXTAREA_CLOSE,
             Textarea(<<>>) \o Textarea(ABC123),
             Textarea(ABC123) \o Textarea(XYZ),
             TEXTAREA_CLOSE \o Textarea(ABC123),
             JWT_MARKER \o TEXTAREA_CLOSE }

\* login drops the response without reading its body
LoginBodies == {<<>>, ERROR_PAGE}

----------------------------------------------------------------------------
(* The Entrez client (src/src/client/entrez.rs).                           *)

\* variant: the client built without cookie_store(true)
Entrez_new_plain(url) == [base_url |-> url, cookie_store |-> FALSE, cookies |-> {}]

\* Entrez::new: the url as given and a client with cookie_store(true)
Entrez_new(url) == [base_url |-> url, cookie_store |-> TRUE, cookies |-> {}]

\* Entrez::with_client: the url and the caller's client, whose builder may
\* or may not have enabled the cookie store
Entrez_with_client(url, cookie_store) ==
    [base_url |-> url, cookie_store |-> cookie_store, cookies |-> {}]

\* variant: a missing variable read as the empty string (unwrap_or_default)
env_var_or_default(name) ==
    IF env[name].ok THEN env[name] ELSE [ok |-> TRUE, value |-> ""]

\* std::env::var: Err when the variable is not present
env_var(name) == env[name]

\* the form of the login request
login_form(username, password) ==
    << <<"username", username>>, <<"password", password>>,
       <<"authFlow", "entrezSession">> >>

\* variant: the status checked as error_for_status() would
login_returns_checked(x) ==
    IF x.sent /\ x.status < 400 THEN Ok(Unit) ELSE FromReqwestError

\* login returns Ok once send() has returned a response, whatever it is
login_returns(x) == IF x.sent THEN Ok(Unit) ELSE FromReqwestError

\* login as called by `caller` (login itself, or login_with_env) when the
\* transport delivers x
login_call(caller, username, password, x) ==
    /\ x.text_ok \/ ~x.sent
    /\ wire' = send(Request(entrez, "POST", <<"/login">>, {},
                            login_form(username, password), <<>>), x)
    /\ resp' = x
    /\ entrez' = store_cookies(entrez, x)
    /\ result' = [op   |-> caller,
                  args |-> [username |-> username, password |-> password],
                  ret  |-> login_returns(x)]
    /\ UNCHANGED <<env, envoy>>

login(username, password) ==
    \E x \in Exchanges(LoginBodies) : login_call("login", username, password, x)

\* the ConfigurationError of a missing variable
not_set(name) ==
    Err("ConfigurationError", <<name, " environment variable not set">>)

\* login_with_env returning before any request
login_with_env_fails(name) ==
    /\ wire' = <<>>
    /\ resp' = NoExchange
    /\ result' = [op |-> "login_with_env", args |-> <<>>, ret |-> not_set(name)]
    /\ UNCHANGED <<env, entrez, envoy>>

\* login_with_env when the transport delivers x to the login it makes
login_with_env_call(x) ==
    LET username == env_var("ENTREZ_USERNAME")
        password == env_var("ENTREZ_PASSWORD")
    IN  IF ~username.ok THEN login_with_env_fails("ENTREZ_USERNAME")
        ELSE IF ~password.ok THEN login_with_env_fails("ENTREZ_PASSWORD")
        ELSE login_call("login_with_env", username.value, password.value, x)

login_with_env == \E x \in Exchanges(LoginBodies) : login_with_env_call(x)

\* variant: only the first space replaced, as replacen(' ', "+", 1) would
normalized_site_first(site_name) ==
    LET lower == to_lowercase(site_name)
        space == find(lower, <<" ">>)
    IN  [i \in 1..Len(lower) |-> IF i = space THEN "+" ELSE lower[i]]

\* the site name as sent: lowercase, spaces replaced by +
normalized_site(site_name) == replace(to_lowercase(site_name), " ", "+")

\* the value of the `uncommissioned` form field
uncommissioned(commissioned) == IF commissioned THEN "on" ELSE "off"

token_form(site_name, serial_number, commissioned) ==
    << <<"uncommissioned", uncommissioned(commissioned)>>,
       <<"Site", normalized_site(site_name)>>,
       <<"serialNum", serial_number>> >>

\* variant: the text between the tags returned as it stands, untrimmed
extract_token_untrimmed(response_text) ==
    LET marker == split_once(response_text, JWT_MARKER)
        open   == split_once(marker.after, <<">">>)
        close  == split_once(open.after, TEXTAREA_CLOSE)
    IN  IF marker.some /\ open.some /\ close.some /\ ~is_empty(trim(close.before))
        THEN Ok(close.before)
        ELSE Err("InvalidResponse", MSG_EXTRACT_FAILED)

\* variant: the is_empty check left out
extract_token_unchecked(response_text) ==
    LET marker == split_once(response_text, JWT_MARKER)
        open   == split_once(marker.after, <<">">>)
        close  == split_once(open.after, TEXTAREA_CLOSE)
    IN  IF marker.some /\ open.some /\ close.some
        THEN Ok(trim(close.before))
        ELSE Err("InvalidResponse", MSG_EXTRACT_FAILED)

\* the token scraped from the page, or the InvalidResponse error
extract_token(response_text) ==
    LET marker == split_once(response_text, JWT_MARKER)
        open   == split_once(marker.after, <<">">>)
        close  == split_once(open.after, TEXTAREA_CLOSE)
        token  == trim(close.before)
    IN  IF marker.some /\ open.some /\ close.some /\ ~is_empty(token)
        THEN Ok(token)
        ELSE Err("InvalidResponse", MSG_EXTRACT_FAILED)

\* variant: the status checked first, as error_for_status() would
generate_token_returns_checked(x) ==
    IF ~x.sent \/ ~x.text_ok \/ x.status >= 400 THEN FromReqwestError
    ELSE extract_token(x.body)

generate_token_returns(x) ==
    IF ~x.sent \/ ~x.text_ok THEN FromReqwestError
    ELSE extract_token(x.body)

\* generate_token when the transport delivers x
generate_token_call(site_name, serial_number, commissioned, x) ==
    /\ wire' = send(Request(entrez, "POST", <<"/entrez_tokens">>, {},
                            token_form(site_name, serial_number, commissioned),
                            <<>>), x)
    /\ resp' = x
    /\ entrez' = store_cookies(entrez, x)
    /\ result' = [op   |-> "generate_token",
                  args |-> [site_name |-> site_name,
                            serial_number |-> serial_number,
                            commissioned |-> commissioned],
                  ret  |-> generate_token_returns(x)]
    /\ UNCHANGED <<env, envoy>>

generate_token(site_name, serial_number, commissioned) ==
    \E x \in Exchanges(EntrezBodies) :
        generate_token_call(site_name, serial_number, commissioned, x)

----------------------------------------------------------------------------
(* serde_json::from_str::<PowerStatusResponse> (src/src/models.rs).        *)
(* The derived Deserialize reads a JSON object with the one field          *)
(* powerForcedOff (rename_all = "camelCase"), a boolean; unknown fields    *)
(* are skipped, a repeated or missing field is an error, and a JSON array  *)
(* is read as the struct's fields in order.  Only whitespace may follow.   *)
(* Positions are indices into the text; position 0 stands for an error.    *)
(* String escapes and number exponents do not occur in the modelled texts. *)

RECURSIVE skip_ws(_, _)
skip_ws(s, i) ==
    IF i <= Len(s) /\ s[i] \in WhiteSpace THEN skip_ws(s, i + 1) ELSE i

At(s, i, c) == i >= 1 /\ i <= Len(s) /\ s[i] = c

TRUE_LIT == <<"t", "r", "u", "e">>
FALSE_LIT == <<"f", "a", "l", "s", "e">>
NULL_LIT == <<"n", "u", "l", "l">>

\* a JSON boolean at i: its value and the position after it
parse_bool(s, i) ==
    IF MatchesAt(s, TRUE_LIT, i) THEN [next |-> i + 4, val |-> TRUE]
    ELSE IF MatchesAt(s, FALSE_LIT, i) THEN [next |-> i + 5, val |-> FALSE]
    ELSE [next |-> 0, val |-> FALSE]

RECURSIVE string_end(_, _)
\* the position after the closing quote of a string whose text starts at i
string_end(s, i) ==
    IF i > Len(s) \/ s[i] \in {"\n", "\t", "\r"} THEN 0
    ELSE IF s[i] = "\"" THEN i + 1
    ELSE string_end(s, i + 1)

\* a JSON string at i: its text and the position after it
parse_string(s, i) ==
    LET e == IF At(s, i, "\"") THEN string_end(s, i + 1) ELSE 0
    IN  [next |-> e, text |-> IF e = 0 THEN <<>> ELSE SubSeq(s, i + 1, e - 2)]

RECURSIVE digits_end(_, _)
digits_end(s, i) ==
    IF i <= Len(s) /\ \E d \in 1..10 : Digit[d] = s[i]
    THEN digits_end(s, i + 1)
    ELSE i

\* a JSON number at i: -? (0 | [1-9][0-9]*) (. [0-9]+)?
number_end(s, i) ==
    LET j == IF At(s, i, "-") THEN i + 1 ELSE i
        k == IF At(s, j, "0") THEN j + 1 ELSE digits_end(s, j)
        f == IF At(s, k, ".") THEN digits_end(s, k + 1) ELSE k
    IN  IF k = j \/ (At(s, k, ".") /\ f = k + 1) THEN 0 ELSE f

RECURSIVE skip_value(_, _)
RECURSIVE skip_items(_, _, _)
RECURSIVE skip_members(_, _, _)

\* any JSON value at i (serde's IgnoredAny): the position after it
skip_value(s, i) ==
    IF i < 1 \/ i > Len(s) THEN 0
    ELSE IF s[i] = "\"" THEN parse_string(s, i).next
    ELSE IF s[i] = "t" THEN (IF MatchesAt(s, TRUE_LIT, i) THEN i + 4 ELSE 0)
    ELSE IF s[i] = "f" THEN (IF MatchesAt(s, FALSE_LIT, i) THEN i + 5 ELSE 0)
    ELSE IF s[i] = "n" THEN (IF MatchesAt(s, NULL_LIT, i) THEN i + 4 ELSE 0)
    ELSE IF s[i] = "[" THEN skip_items(s, i + 1, TRUE)
    ELSE IF s[i] = "{" THEN skip_members(s, i + 1, TRUE)
    ELSE number_end(s, i)

\* the elements of an array up to and including its ]
skip_items(s, i, first) ==
    LET j == skip_ws(s, i)
    IN  IF At(s, j, "]") THEN j + 1
        ELSE LET k == IF first THEN j
                      ELSE IF At(s, j, ",") THEN skip_ws(s, j + 1) ELSE 0
                 n == IF At(s, k, "]") THEN 0 ELSE skip_value(s, k)
             IN  IF n = 0 THEN 0 ELSE skip_items(s, n, FALSE)

\* the members of an object up to and including its }
skip_members(s, i, first) ==
    LET j == skip_ws(s, i)
    IN  IF At(s, j, "}") THEN j + 1
        ELSE LET k   == IF first THEN j
                        ELSE IF At(s, j, ",") THEN skip_ws(s, j + 1) ELSE 0
                 key == parse_string(s, k).next
                 c   == IF key = 0 THEN 0 ELSE skip_ws(s, key)
                 n   == IF At(s, c, ":")
                        THEN skip_value(s, skip_ws(s, c + 1)) ELSE 0
             IN  IF n = 0 THEN 0 ELSE skip_members(s, n, FALSE)

JsonFail == [next |-> 0, val |-> FALSE]

RECURSIVE visit_map(_, _, _, _, _)
\* the derived visit_map from position i inside the object: `seen` and `val`
\* are the field read so far
visit_map(s, i, first, seen, val) ==
    LET j == skip_ws(s, i)
    IN  IF At(s, j, "}")
        THEN (IF seen THEN [next |-> j + 1, val |-> val] ELSE JsonFail)
        ELSE LET k   == IF first THEN j
                        ELSE IF At(s, j, ",") THEN skip_ws(s, j + 1) ELSE 0
                 key == parse_string(s, k)
                 c   == IF key.next = 0 THEN 0 ELSE skip_ws(s, key.next)
                 v   == IF At(s, c, ":") THEN skip_ws(s, c + 1) ELSE 0
             IN  IF v = 0 THEN JsonFail
                 ELSE IF key.text = POWER_FORCED_OFF
                 THEN LET b == parse_bool(s, v)
                      IN  IF seen \/ b.next = 0 THEN JsonFail
                          ELSE visit_map(s, b.next, FALSE, TRUE, b.val)
                 ELSE LET n == skip_value(s, v)
                      IN  IF n = 0 THEN JsonFail
                          ELSE visit_map(s, n, FALSE, seen, val)

\* the derived visit_seq from position i inside the array: exactly one boolean
visit_seq(s, i) ==
    LET b == parse_bool(s, skip_ws(s, i))
        e == IF b.next = 0 THEN 0 ELSE skip_ws(s, b.next)
    IN  IF At(s, e, "]") THEN [next |-> e + 1, val |-> b.val] ELSE JsonFail

\* serde_json::from_str: [ok, power_forced_off]
from_str(s) ==
    LET i == skip_ws(s, 1)
        r == IF At(s, i, "{") THEN visit_map(s, i + 1, TRUE, FALSE, FALSE)
             ELSE IF At(s, i, "[") THEN visit_seq(s, i + 1)
             ELSE JsonFail
    IN  [ok |-> r.next # 0 /\ skip_ws(s, r.next) = Len(s) + 1,
         power_forced_off |-> r.val]

----------------------------------------------------------------------------
(* Bodies the Envoy device answers with.                                   *)

VALID_TOKEN_PAGE ==
    <<"<", "!", "D", "O", "C", "T", "Y", "P", "E", " ", "h", "t", "m", "l",
      ">", "<", "h", "2", ">", "V", "a", "l", "i", "d", " ", "t", "o", "k",
      "e", "n", ".", "<", "/", "h", "2", ">">>
INVALID_TOKEN_BODY ==
    <<"I", "n", "v", "a", "l", "i", "d", " ", "t", "o", "k", "e", "n">>
LOWER_VALID_TOKEN ==
    <<"v", "a", "l", "i", "d", " ", "t", "o", "k", "e", "n">>
INVALID_JSON ==
    <<"I", "n", "v", "a", "l", "i", "d", " ", "J", "S", "O", "N", " ", "r",
      "e", "s", "p", "o", "n", "s", "e">>

Quoted(text) == <<"\"">> \o text \o <<"\"">>
Member(key, value) == Quoted(key) \o <<":", " ">> \o value
Object(members) == <<"{">> \o members \o <<"}">>

\* {"powerForcedOff": false} and {"powerForcedOff": true}
PFO_FALSE == Object(Member(POWER_FORCED_OFF, FALSE_LIT))
PFO_TRUE == Object(Member(POWER_FORCED_OFF, TRUE_LIT))

\* bodies that deserialize: the field alone, among others, spaced, as array
GoodJsonBodies ==
    { PFO_FALSE, PFO_TRUE,
      Object(Member(<<"m">>, <<"[", "1", ",", " ">> \o Object(Member(<<"a">>,
             NULL_LIT)) \o <<"]">>) \o <<",", " ">>
             \o Member(POWER_FORCED_OFF, FALSE_LIT)),
      <<" ", "{">> \o Quoted(POWER_FORCED_OFF) \o <<" ", ":", "\t">>
             \o TRUE_LIT \o <<" ", "}", "\n">>,
      <<"[">> \o TRUE_LIT \o <<"]">> }

\* bodies that do not: not JSON, or JSON of another shape
BadJsonBodies ==
    { <<>>, INVALID_JSON, TRUE_LIT, <<"{", "}">>,
      Object(Member(POWER_FORCED_OFF, <<"1">>)),
      Object(Member(POWER_FORCED_OFF, Quoted(TRUE_LIT))),
      Object(Member(POWER_FORCED_OFF, NULL_LIT)),
      <<"{">> \o Member(POWER_FORCED_OFF, TRUE_LIT),
      PFO_TRUE \o <<" ", "x">>,
      Object(Member(POWER_FORCED_OFF, TRUE_LIT) \o <<",", " ">>
             \o Member(POWER_FORCED_OFF, FALSE_LIT)),
      Object(Member(POWER_FORCED_OFF, FALSE_LIT) \o <<",">>),
      Object(Member(<<"p", "o", "w", "e", "r", "_", "f", "o", "r", "c", "e",
                      "d", "_", "o", "f", "f">>, TRUE_LIT)),
      <<"[", "]">>,
      <<"[">> \o TRUE_LIT \o <<",", "1", "]">> }

\* answers of /auth/check_jwt, bare or padded with whitespace, or blank
AuthBodies ==
    {l \o t \o r : l \in Pads, r \in Pads,
                   t \in {VALID_TOKEN, INVALID_TOKEN_BODY}}
      \cup {VALID_TOKEN_PAGE, LOWER_VALID_TOKEN}
      \cup Pads

EnvoyBodies == AuthBodies \cup GoodJsonBodies \cup BadJsonBodies

\* set_power_state never reads the response body
PowerSetBodies == {<<>>, PFO_FALSE}

Tokens == {ABC123}

PowerStates == {"On", "Off"}

----------------------------------------------------------------------------
(* The models (src/src/models.rs).                                         *)

\* variant: 0 sent for either state
payload_value_zero(state) == 0

\* variant: the two values exchanged
payload_value_swapped(state) == IF state = "On" THEN 1 ELSE 0

\* PowerState::payload_value
payload_value(state) == IF state = "On" THEN 0 ELSE 1

----------------------------------------------------------------------------
(* The Envoy client (src/src/client/envoy.rs).                             *)

\* Envoy::new: https://{host} and a client with cookie_store(true)
Envoy_new(host) ==
    [base_url |-> <<"https://", host>>, cookie_store |-> TRUE, cookies |-> {}]

\* variant: || in place of &&
jwt_accepted_either(status, body) == status = 200 \/ contains(body, VALID_TOKEN)

\* the check of the /auth/check_jwt answer
jwt_accepted(status, body) == status = 200 /\ contains(body, VALID_TOKEN)

\* variant: a blank body given the generic message too
jwt_rejected_message_blank(body) ==
    IF is_empty(trim(body)) THEN MSG_AUTH_GENERIC
    ELSE MSG_JWT_CHECK_FAILED \o trim(body)

\* the message of the AuthenticationFailed error
jwt_rejected_message(body) ==
    IF is_empty(body) THEN MSG_AUTH_GENERIC
    ELSE MSG_JWT_CHECK_FAILED \o trim(body)

authenticate_returns(x) ==
    IF ~x.sent \/ ~x.text_ok THEN FromReqwestError
    ELSE IF jwt_accepted(x.status, x.body) THEN Ok(Unit)
    ELSE Err("AuthenticationFailed", jwt_rejected_message(x.body))

\* authenticate when the transport delivers x
authenticate_call(token, x) ==
    /\ wire' = send(Request(envoy, "GET", <<"/auth/check_jwt">>,
                            {<<"Authorization", <<"Bearer ", token>>>>},
                            <<>>, <<>>), x)
    /\ resp' = x
    /\ envoy' = store_cookies(envoy, x)
    /\ result' = [op   |-> "authenticate",
                  args |-> [token |-> token],
                  ret  |-> authenticate_returns(x)]
    /\ UNCHANGED <<env, entrez>>

authenticate(token) ==
    \E x \in Exchanges(EnvoyBodies) : authenticate_call(token, x)

\* the canonical reason phrases of the modelled status codes
canonical_reason(status) ==
    CASE status = 200 -> <<"O", "K">>
      [] status = 204 -> <<"N", "o", " ", "C", "o", "n", "t", "e", "n", "t">>
      [] status = 401 ->
            <<"U", "n", "a", "u", "t", "h", "o", "r", "i", "z", "e", "d">>
      [] status = 500 ->
            <<"I", "n", "t", "e", "r", "n", "a", "l", " ", "S", "e", "r", "v",
              "e", "r", " ", "E", "r", "r", "o", "r">>
      [] OTHER -> <<"<", "u", "n", "k", "n", "o", "w", "n", " ", "s", "t",
                    "a", "t", "u", "s", " ", "c", "o", "d", "e", ">">>

\* Display of a StatusCode: the code and its reason phrase
status_display(status) == Decimal(status) \o <<" ">> \o canonical_reason(status)

\* the body of the PUT: {"length":1,"arr":[V]}
power_payload(state) ==
    PAYLOAD_HEAD \o Decimal(payload_value(state)) \o PAYLOAD_TAIL

\* variant: any 2xx status taken as success
power_set_accepted_2xx(status) == status >= 200 /\ status < 300

\* the check of the PUT's answer
power_set_accepted(status) == status = 204

\* the message of the InvalidResponse error
power_set_message(status) == MSG_SET_POWER_FAILED \o status_display(status)

\* variant: a 401 answer reported as an authentication failure
set_power_state_returns_auth(x) ==
    IF ~x.sent THEN FromReqwestError
    ELSE IF power_set_accepted(x.status) THEN Ok(Unit)
    ELSE IF x.status = 401
    THEN Err("AuthenticationFailed", power_set_message(x.status))
    ELSE Err("InvalidResponse", power_set_message(x.status))

set_power_state_returns(x) ==
    IF ~x.sent THEN FromReqwestError
    ELSE IF power_set_accepted(x.status) THEN Ok(Unit)
    ELSE Err("InvalidResponse", power_set_message(x.status))

power_path(serial) == <<"/ivp/mod/", serial, "/mode/power">>

\* set_power_state when the transport delivers x
set_power_state_call(serial, state, x) ==
    /\ x.text_ok \/ ~x.sent
    /\ wire' = send(Request(envoy, "PUT", power_path(serial),
                            {<<"Content-Type",
                               "application/x-www-form-urlencoded; charset=UTF-8">>},
                            <<>>, power_payload(state)), x)
    /\ resp' = x
    /\ envoy' = store_cookies(envoy, x)
    /\ result' = [op   |-> "set_power_state",
                  args |-> [serial |-> serial, state |-> state],
                  ret  |-> set_power_state_returns(x)]
    /\ UNCHANGED <<env, entrez>>

set_power_state(serial, state) ==
    \E x \in Exchanges(PowerSetBodies) : set_power_state_call(serial, state, x)

\* variant: the field returned without the negation
is_on_plain(status) == status.power_forced_off

\* Ok(!status.power_forced_off)
is_on(status) == ~status.power_forced_off

\* variant: a body that does not parse read as the default status
parse_power_status_lenient(body) == Ok(~from_str(body).power_forced_off)

\* the body parsed, and the value or the JsonError returned
parse_power_status(body) ==
    LET status == from_str(body)
    IN  IF status.ok THEN Ok(is_on(status)) ELSE FromJsonError

\* variant: the status checked first, as error_for_status() would
get_power_state_returns_checked(x) ==
    IF ~x.sent \/ ~x.text_ok \/ x.status >= 400 THEN FromReqwestError
    ELSE parse_power_status(x.body)

get_power_state_returns(x) ==
    IF ~x.sent \/ ~x.text_ok THEN FromReqwestError
    ELSE parse_power_status(x.body)

\* get_power_state when the transport delivers x
get_power_state_call(serial, x) ==
    /\ wire' = send(Request(envoy, "GET", power_path(serial),
                            {<<"Accept",
                               "application/json, text/javascript, */*; q=0.01">>},
                            <<>>, <<>>), x)
    /\ resp' = x
    /\ envoy' = store_cookies(envoy, x)
    /\ result' = [op   |-> "get_power_state",
                  args |-> [serial |-> serial],
                  ret  |-> get_power_state_returns(x)]
    /\ UNCHANGED <<env, entrez>>

get_power_state(serial) ==
    \E x \in Exchanges(EnvoyBodies) : get_power_state_call(serial, x)

----------------------------------------------------------------------------
(* The system: a caller holding one client of each kind.                   *)

Unset == [ok |-> FALSE, value |-> ""]
Set(v) == [ok |-> TRUE, value |-> v]

\* the environments the process may be started in
Environments ==
    [ENTREZ_USERNAME : {Unset, Set("env_test@example.com")},
     ENTREZ_PASSWORD : {Unset, Set("env_test_password")}]

Hosts == {"envoy.local"}

\* the address of a test server, as given to with_client
MOCK_SERVER_URL == "http://localhost:1"

\* the Entrez clients a caller builds: Entrez::new, or with_client around
\* a plain reqwest::Client::new(), which keeps no cookies
EntrezClients ==
    {Entrez_new(DEFAULT_ENTREZ_URL), Entrez_with_client(MOCK_SERVER_URL, FALSE)}

\* no call in progress and no returned value pending
NoCall == [op |-> "none", args |-> <<>>, ret |-> Ok(Unit)]

\* the relay of the gateway, closed or forced open
Devices == [power_forced_off : BOOLEAN]

\* nothing has been called yet.  login: login or login_with_env has been
\* called; token: a generate_token has returned a token; authenticate: how
\* the last authenticate ended; set: the state of the last set_power_state
\* the gateway accepted
NoHistory ==
    [login |-> FALSE, token |-> FALSE, authenticate |-> "none", set |-> "none"]

Init ==
    /\ env \in Environments
    /\ entrez \in EntrezClients
    /\ envoy \in {Envoy_new(h) : h \in Hosts}
    /\ wire = <<>>
    /\ resp = NoExchange
    /\ result = NoCall
    /\ device = [power_forced_off |-> FALSE]
    /\ history = NoHistory

\* the caller is between two calls: calls are made one at a time
Idle == result = NoCall

\* the caller takes the returned value; the clients stay as they are
Return ==
    /\ ~Idle
    /\ wire' = <<>>
    /\ resp' = NoExchange
    /\ result' = NoCall
    /\ UNCHANGED <<env, entrez, envoy, device, history>>

\* any call, in any order, answered in any way
Next ==
    \/ /\ Idle
       /\ \E u \in Usernames, p \in Passwords : login(u, p)
       /\ UNCHANGED <<device, history>>
    \/ /\ Idle
       /\ login_with_env
       /\ UNCHANGED <<device, history>>
    \/ /\ Idle
       /\ \E s \in SiteNames, n \in SerialNumbers, c \in BOOLEAN :
             generate_token(s, n, c)
       /\ UNCHANGED <<device, history>>
    \/ /\ Idle
       /\ \E t \in Tokens : authenticate(t)
       /\ UNCHANGED <<device, history>>
    \/ /\ Idle
       /\ \E n \in SerialNumbers, s \in PowerStates : set_power_state(n, s)
       /\ UNCHANGED <<device, history>>
    \/ /\ Idle
       /\ \E n \in SerialNumbers : get_power_state(n)
       /\ UNCHANGED <<device, history>>
    \/ Return

Spec == Init /\ [][Next]_vars

----------------------------------------------------------------------------
(* The flow against a gateway: the same calls, with the relay on the far   *)
(* side of set_power_state and get_power_state, and the caller's record of *)
(* what it has been through.                                               *)

\* the flag the gateway stores from the body of an accepted PUT: the element
\* V of "arr", as powerForcedOff = (V = 1)
Device_stores(body) ==
    LET arr == split_once(body, <<"[">>)
        element == split_once(arr.after, <<"]">>)
    IN  [power_forced_off |-> element.before = <<"1">>]

\* the status document the gateway renders, alone or after another field
Device_bodies(d) ==
    LET flag == IF d.power_forced_off THEN TRUE_LIT ELSE FALSE_LIT
    IN  { Object(Member(POWER_FORCED_OFF, flag)),
          Object(Member(<<"l", "e", "n", "g", "t", "h">>, <<"1">>)
                 \o <<",", " ">> \o Member(POWER_FORCED_OFF, flag)) }

\* the gateway accepts every PUT with 204, unless the request is lost
Device_put_answers ==
    {SendError} \cup {Response(204, c, <<>>) : c \in {NoCookie, SessionCookie}}

\* the gateway answers a GET with its status document
Device_get_answers(d) ==
    {SendError}
      \cup {BodyError(200, c) : c \in {NoCookie, SessionCookie}}
      \cup {Response(200, c, b) : c \in {NoCookie, SessionCookie},
                                  b \in Device_bodies(d)}

\* answers of the cloud service and of /auth/check_jwt in the flow
FlowStatuses == {200, 401}
FlowExchanges(bodies) ==
    {SendError}
      \cup {Response(s, c, b) : s \in FlowStatuses,
                                c \in {NoCookie, SessionCookie}, b \in bodies}

\* the site names the flow asks tokens for
FlowSiteNames == SiteNames \cup {MIXED_SITE}

FlowInit ==
    /\ env = [ENTREZ_USERNAME |-> Set("env_test@example.com"),
              ENTREZ_PASSWORD |-> Set("env_test_password")]
    /\ entrez = Entrez_new(DEFAULT_ENTREZ_URL)
    /\ envoy \in {Envoy_new(h) : h \in Hosts}
    /\ wire = <<>>
    /\ resp = NoExchange
    /\ result = NoCall
    /\ device \in Devices
    /\ history = NoHistory

Flow_login ==
    /\ Idle
    /\ \E x \in FlowExchanges({<<>>}) :
          /\ login_call("login", "test@example.com", "test_password", x)
          /\ history' = [history EXCEPT !.login = TRUE]
    /\ UNCHANGED device

Flow_login_with_env ==
    /\ Idle
    /\ \E x \in FlowExchanges({<<>>}) :
          /\ login_with_env_call(x)
          /\ history' = [history EXCEPT !.login = TRUE]
    /\ UNCHANGED device

Flow_generate_token ==
    /\ Idle
    /\ \E s \in FlowSiteNames, n \in SerialNumbers, c \in BOOLEAN,
          x \in FlowExchanges({Page(Textarea(ABC123)), ERROR_PAGE}) :
          /\ generate_token_call(s, n, c, x)
          /\ history' = [history EXCEPT
                           !.token = @ \/ generate_token_returns(x).kind = "Ok"]
    /\ UNCHANGED device

Flow_authenticate ==
    /\ Idle
    /\ \E x \in FlowExchanges({VALID_TOKEN_PAGE, INVALID_TOKEN_BODY}) :
          /\ authenticate_call(ABC123, x)
          /\ history' = [history EXCEPT
                           !.authenticate =
                               IF authenticate_returns(x).kind = "Ok"
                               THEN "ok" ELSE "failed"]
    /\ UNCHANGED device

\* the PUT reaches the gateway, which stores the element it carries
Flow_set_power_state ==
    /\ Idle
    /\ \E n \in SerialNumbers, s \in PowerStates, x \in Device_put_answers :
          /\ set_power_state_call(n, s, x)
          /\ IF x.sent /\ wire' # <<>>
             THEN /\ device' = Device_stores(wire'[1].body)
                  /\ history' = [history EXCEPT !.set = s]
             ELSE UNCHANGED <<device, history>>

\* the GET is answered from what the gateway stores
Flow_get_power_state ==
    /\ Idle
    /\ \E n \in SerialNumbers, x \in Device_get_answers(device) :
          get_power_state_call(n, x)
    /\ UNCHANGED <<device, history>>

FlowNext ==
    \/ Flow_login
    \/ Flow_login_with_env
    \/ Flow_generate_token
    \/ Flow_authenticate
    \/ Flow_set_power_state
    \/ Flow_get_power_state
    \/ Return

FlowSpec == FlowInit /\ [][FlowNext]_vars

----------------------------------------------------------------------------
(* Vocabulary of the properties, stated on positions of the text rather    *)
(* than with the operators the clients are modelled with.                  *)

\* pat stands in s at position i
OccursAt(s, pat, i) ==
    /\ i \in 1..(Len(s) - Len(pat) + 1)
    /\ \A k \in 1..Len(pat) : s[i + k - 1] = pat[k]

Occurs(s, pat) == \E i \in 1..Len(s) : OccursAt(s, pat, i)

\* the least position >= from where pat stands in s, 0 if there is none
FirstAt(s, pat, from) ==
    LET at == {i \in from..Len(s) : OccursAt(s, pat, i)}
    IN  IF at = {} THEN 0 ELSE CHOOSE i \in at : \A j \in at : i <= j

\* s without the whitespace at its two ends
Stripped(s) ==
    LET ink == {i \in 1..Len(s) : s[i] \notin {" ", "\n", "\t", "\r"}}
    IN  IF ink = {} THEN <<>>
        ELSE SubSeq(s, CHOOSE i \in ink : \A j \in ink : i <= j,
                       CHOOSE i \in ink : \A j \in ink : i >= j)

\* the value of the named field of a form
FormField(form, name) ==
    form[CHOOSE i \in 1..Len(form) : form[i][1] = name][2]

\* the last call was `op`
Called(op) == result.op = op

\* the last call got a response and, where it reads one, its body
Completed == resp.sent /\ resp.text_ok

Returned(kind) == result.ret.kind = "Err" /\ result.ret.err = kind

ReturnedOk == result.ret.kind = "Ok"

----------------------------------------------------------------------------
(* Properties.                                                             *)

\* C1: authenticate returns Ok exactly when the response has status 200 and
\* its body contains "Valid token"; every other completed exchange gives an
\* AuthenticationFailed error.
C1_AuthenticateNeedsBoth ==
    (Called("authenticate") /\ Completed) =>
        /\ ReturnedOk <=> (resp.status = 200 /\ Occurs(resp.body, VALID_TOKEN))
        /\ ~ReturnedOk => Returned("AuthenticationFailed")

\* a 401 whose body is "Valid token" was refused
C1_Witness ==
    /\ Called("authenticate")
    /\ Completed
    /\ resp.status = 401
    /\ resp.body = VALID_TOKEN
    /\ Returned("AuthenticationFailed")

\* the decimal text of the modelled status codes
CodeText(status) ==
    CASE status = 200 -> <<"2", "0", "0">>
      [] status = 204 -> <<"2", "0", "4">>
      [] status = 401 -> <<"4", "0", "1">>
      [] status = 500 -> <<"5", "0", "0">>

\* C2: set_power_state returns Ok exactly when the status is 204; any other
\* status gives an InvalidResponse error whose message contains the code.
C2_SetPowerOnly204 ==
    (Called("set_power_state") /\ resp.sent) =>
        /\ ReturnedOk <=> resp.status = 204
        /\ resp.status # 204 =>
              /\ Returned("InvalidResponse")
              /\ Occurs(result.ret.msg, CodeText(resp.status))

\* a 200 with an empty body was refused
C2_Witness ==
    /\ Called("set_power_state")
    /\ resp.sent
    /\ resp.status = 200
    /\ resp.body = <<>>
    /\ Returned("InvalidResponse")
    /\ Occurs(result.ret.msg, <<"2", "0", "0">>)

\* C3: the `uncommissioned` form field of the /entrez_tokens request is "off"
\* when commissioned is true and "on" when it is false.
C3_UncommissionedInverts ==
    Called("generate_token") =>
        FormField(wire[1].form, "uncommissioned")
            = IF result.args.commissioned THEN "off" ELSE "on"

C5_LoginWithEnv ==
    Called("login_with_env") =>
        IF ~env.ENTREZ_USERNAME.ok \/ ~env.ENTREZ_PASSWORD.ok
        THEN /\ Returned("ConfigurationError")
             /\ wire = <<>>
        ELSE /\ Len(wire) = 1
             /\ wire[1].method = "POST"
             /\ wire[1].url = <<entrez.base_url, "/login">>
             /\ wire[1].form = << <<"username", env.ENTREZ_USERNAME.value>>,
                                  <<"password", env.ENTREZ_PASSWORD.value>>,
                                  <<"authFlow", "entrezSession">> >>
             /\ resp.sent => ReturnedOk
             /\ ~ReturnedOk => ~resp.sent /\ Returned("Http")

\* only the password was unset: the error came with no request on the wire
C5_Witness ==
    /\ Called("login_with_env")
    /\ env.ENTREZ_USERNAME.ok
    /\ ~env.ENTREZ_PASSWORD.ok
    /\ Returned("ConfigurationError")
    /\ wire = <<>>

\* the text generate_token is to return for a page: with m the first marker,
\* o the first > after it and c the first </textarea> after o, the text
\* between o and c, stripped; `found` tells whether the three exist
Between(body) ==
    LET m == FirstAt(body, JWT_MARKER, 1)
        o == IF m = 0 THEN 0 ELSE FirstAt(body, <<">">>, m + Len(JWT_MARKER))
        c == IF o = 0 THEN 0 ELSE FirstAt(body, TEXTAREA_CLOSE, o + 1)
    IN  [found |-> c # 0,
         text  |-> IF c = 0 THEN <<>> ELSE Stripped(SubSeq(body, o + 1, c - 1))]

\* C6: the token generate_token returns is the text between the first > after
\* the first id="JWTToken" and the first </textarea> after that >, with the
\* surrounding whitespace removed.
C6_TokenBetweenBoundaries ==
    (Called("generate_token") /\ Completed) =>
        LET token == Between(resp.body)
        IN  /\ ReturnedOk => token.found /\ result.ret.value = token.text
            /\ (token.found /\ token.text # <<>>) =>
                  ReturnedOk /\ result.ret.value = token.text

\* the page of the claim gave abc123
C6_Witness ==
    /\ Called("generate_token")
    /\ Completed
    /\ resp.body = Page(Textarea(ABC123))
    /\ ReturnedOk
    /\ result.ret.value = ABC123

\* C7: generate_token fails with InvalidResponse and the fixed message when a
\* boundary is missing or the text between them is blank; it does not turn to
\* a later marker, and an Ok token is never empty.
C7_NoTokenIsInvalidResponse ==
    (Called("generate_token") /\ Completed) =>
        LET token == Between(resp.body)
        IN  /\ (~token.found \/ token.text = <<>>) =>
                  /\ Returned("InvalidResponse")
                  /\ result.ret.msg = MSG_EXTRACT_FAILED
            /\ ReturnedOk => result.ret.value # <<>>

\* an empty first textarea followed by a filled one: no token
C7_Witness ==
    /\ Called("generate_token")
    /\ Completed
    /\ resp.body = Textarea(<<>>) \o Textarea(ABC123)
    /\ Returned("InvalidResponse")
    /\ result.ret.msg = MSG_EXTRACT_FAILED

\* C8: the body set_power_state sends is {"length":1,"arr":[V]} with V = 0
\* for On and V = 1 for Off.
C8_PowerPayload ==
    Called("set_power_state") =>
        /\ Len(wire) = 1
        /\ wire[1].body =
              <<"{", "\"", "l", "e", "n", "g", "t", "h", "\"", ":", "1", ",",
                "\"", "a", "r", "r", "\"", ":", "[",
                IF result.args.state = "On" THEN "0" ELSE "1", "]", "}">>

\* Off went out as [1]
C8_Witness ==
    /\ Called("set_power_state")
    /\ result.args.state = "Off"
    /\ wire[1].body = PAYLOAD_HEAD \o <<"1">> \o PAYLOAD_TAIL

\* C9: get_power_state returns the negation of powerForcedOff:
\* {"powerForcedOff": false} gives Ok(true), {"powerForcedOff": true} gives
\* Ok(false).
C9_PowerStateNegates ==
    (Called("get_power_state") /\ Completed) =>
        /\ resp.body = PFO_FALSE => ReturnedOk /\ result.ret.value = TRUE
        /\ resp.body = PFO_TRUE => ReturnedOk /\ result.ret.value = FALSE

\* a device forced off was reported as not on
C9_Witness ==
    /\ Called("get_power_state")
    /\ Completed
    /\ resp.body = PFO_TRUE
    /\ ReturnedOk
    /\ result.ret.value = FALSE

Lowered(c) ==
    IF \E i \in 1..26 : UpperCase[i] = c
    THEN LowerCase[CHOOSE i \in 1..26 : UpperCase[i] = c]
    ELSE c

\* the request the last call issued
Issued == wire[1]

\* C11: the Site field of generate_token's form is the site name with every
\* letter lowercased, every space replaced by + and every other character
\* kept in place; the serialNum field is the serial number as given.
C11_SiteNormalized ==
    Called("generate_token") =>
        LET site == FormField(Issued.form, "Site")
            name == result.args.site_name
        IN  /\ Len(site) = Len(name)
            /\ \A i \in 1..Len(name) :
                  site[i] = IF name[i] = " " THEN "+" ELSE Lowered(name[i])
            /\ FormField(Issued.form, "serialNum") = result.args.serial_number

\* " A+b  C-1" went out as "+a+b++c-1"
C11_Witness ==
    /\ Called("generate_token")
    /\ result.args.site_name = MIXED_SITE
    /\ FormField(Issued.form, "Site")
         = <<"+", "a", "+", "b", "+", "+", "c", "-", "1">>
    /\ FormField(Issued.form, "serialNum") = "603980032"

\* C12: the outcome of generate_token is decided by the response body alone:
\* a body delivered with a status other than 200 gives the outcome the same
\* body gives with 200, and the other way round with 500, so all statuses
\* agree and a page with the markers gives its token under an error status.
C12_TokenIgnoresStatus ==
    (Called("generate_token") /\ Completed) =>
        LET other == IF resp.status = 200 THEN 500 ELSE 200
        IN  generate_token_returns(
                Response(other, resp.set_cookie, resp.body)) = result.ret

\* a 500 whose page holds the markers gave the token
C12_Witness ==
    /\ Called("generate_token")
    /\ Completed
    /\ resp.status = 500
    /\ resp.body = Page(Textarea(ABC123))
    /\ ReturnedOk
    /\ result.ret.value = ABC123

\* C13: when authenticate fails on a completed exchange, the message is the
\* generic "Invalid token or authentication failed" exactly when the body is
\* empty; otherwise it is "JWT check failed: " followed by the body without
\* the whitespace at its ends, so it contains that text.
C13_AuthenticationFailedMessage ==
    (Called("authenticate") /\ Completed /\ Returned("AuthenticationFailed")) =>
        /\ (result.ret.msg = MSG_AUTH_GENERIC) <=> (resp.body = <<>>)
        /\ resp.body # <<>> =>
              /\ Occurs(result.ret.msg, Stripped(resp.body))
              /\ result.ret.msg = MSG_JWT_CHECK_FAILED \o Stripped(resp.body)

\* a padded "Invalid token" was reported without its padding
C13_Witness ==
    /\ Called("authenticate")
    /\ Completed
    /\ Returned("AuthenticationFailed")
    /\ resp.body = <<"\n">> \o INVALID_TOKEN_BODY \o <<" ">>
    /\ result.ret.msg = MSG_JWT_CHECK_FAILED \o INVALID_TOKEN_BODY

\* the operations that talk to the network
NetworkOps ==
    {"login", "login_with_env", "generate_token", "authenticate",
     "set_power_state", "get_power_state"}

\* C14: no operation retries: a call issues at most one HTTP request, and
\* exactly one unless it fails before sending; a transport failure, an
\* unreadable body or a failed response check is returned with that one
\* request on the wire.
C14_NoRetry ==
    /\ Len(wire) <= 1
    /\ (result.op \in NetworkOps /\ ~Returned("ConfigurationError")) =>
          Len(wire) = 1
    /\ (result.op \in NetworkOps /\ ~ReturnedOk) =>
          /\ Len(wire) <= 1
          /\ (wire # <<>> /\ ~resp.sent) => Returned("Http")

\* a response refused by the check, returned after the single request
C14_Witness ==
    /\ Called("set_power_state")
    /\ Len(wire) = 1
    /\ resp.sent
    /\ resp.status = 500
    /\ Returned("InvalidResponse")

\* client is what Entrez::new builds for its url, with whatever cookies it
\* has gathered since
BuiltByNew(client) ==
    client = [Entrez_new(client.base_url) EXCEPT !.cookies = client.cookies]

LoginOps == {"login", "login_with_env"}

\* C15: on a client built by Entrez::new, no step removes a cookie, the
\* cookie a login response sets is in the client afterwards, and a
\* generate_token request carries every cookie the client held when it was
\* called: a session cookie set at login rides on every later generate_token.
C15_SessionCookieKept ==
    [][ BuiltByNew(entrez) =>
          /\ entrez.cookies \subseteq entrez'.cookies
          /\ (result'.op \in LoginOps /\ resp'.sent /\ resp'.set_cookie # NoCookie)
                => resp'.set_cookie \in entrez'.cookies
          /\ (result'.op = "generate_token" /\ wire' # <<>>)
                => wire'[1].cookies = entrez.cookies ]_vars

\* generate_token presented a cookie kept from an earlier response, and
\* still holds it after a failure that set none
C15_Witness ==
    /\ Called("generate_token")
    /\ BuiltByNew(entrez)
    /\ SessionCookie \in Issued.cookies
    /\ resp.set_cookie = NoCookie
    /\ ~ReturnedOk
    /\ SessionCookie \in entrez.cookies

EntrezOps == {"login", "login_with_env", "generate_token"}

EnvoyOps == {"authenticate", "set_power_state", "get_power_state"}

\* C16: the two clients share no state.  An Entrez call leaves the Envoy
\* client as it was and sends only the Entrez client's base URL and cookies;
\* an Envoy call leaves the Entrez client as it was and sends only the Envoy
\* client's base URL and cookies, and the token in authenticate's header is
\* the one the caller passed.
C16_ClientsShareNothing ==
    [][ /\ result'.op \in EntrezOps =>
              /\ envoy' = envoy
              /\ wire' # <<>> =>
                    /\ wire'[1].url[1] = entrez.base_url
                    /\ wire'[1].cookies = entrez.cookies
        /\ result'.op \in EnvoyOps =>
              /\ entrez' = entrez
              /\ wire' # <<>> =>
                    /\ wire'[1].url[1] = envoy.base_url
                    /\ wire'[1].cookies = envoy.cookies
        /\ (result'.op = "authenticate" /\ wire' # <<>>) =>
              wire'[1].headers
                  = {<<"Authorization", <<"Bearer ", result'.args.token>>>>}
      ]_vars

\* authenticate went out with the caller's token and without the session
\* cookie the Entrez client holds
C16_Witness ==
    /\ Called("authenticate")
    /\ entrez.cookies = {SessionCookie}
    /\ Issued.cookies = {}
    /\ Issued.url[1] = envoy.base_url
    /\ Issued.headers = {<<"Authorization", <<"Bearer ", ABC123>>>>}

\* after the step the client is as before, but for the cookies it holds
SameButCookies(before, after) == after = [before EXCEPT !.cookies = after.cookies]

\* the step is a call of generate_token, authenticate, set_power_state or
\* get_power_state that returns an error
FailedCall ==
    /\ result'.op \in {"generate_token", "authenticate",
                       "set_power_state", "get_power_state"}
    /\ result'.ret.kind = "Err"

\* C17 (as stated): no step clears a cookie or changes a base URL, and a
\* failed generate_token, authenticate, set_power_state or get_power_state
\* leaves both clients exactly as they were.
C17_UnchangedAfterFailure ==
    [][ /\ SameButCookies(entrez, entrez') /\ entrez.cookies \subseteq entrez'.cookies
        /\ SameButCookies(envoy, envoy') /\ envoy.cookies \subseteq envoy'.cookies
        /\ FailedCall => (entrez' = entrez /\ envoy' = envoy) ]_vars

\* C17 (amended): no step, succeeding or failing, clears a cookie or changes
\* a base URL; a failed call leaves both clients exactly as they were unless
\* its response set a cookie, which a client with a cookie store then holds
\* in addition to those it held.
C17_NothingLostAfterFailure ==
    [][ /\ SameButCookies(entrez, entrez') /\ entrez.cookies \subseteq entrez'.cookies
        /\ SameButCookies(envoy, envoy') /\ envoy.cookies \subseteq envoy'.cookies
        /\ (FailedCall /\ (~resp'.sent \/ resp'.set_cookie = NoCookie)) =>
              (entrez' = entrez /\ envoy' = envoy)
        /\ (FailedCall /\ resp'.sent /\ resp'.set_cookie # NoCookie) =>
              /\ entrez'.cookies \subseteq entrez.cookies \cup {resp'.set_cookie}
              /\ envoy'.cookies \subseteq envoy.cookies \cup {resp'.set_cookie}
      ]_vars

\* authenticate was refused by a response that set no cookie, and the
\* session cookie of an earlier response is still held
C17_Witness ==
    /\ Called("authenticate")
    /\ Returned("AuthenticationFailed")
    /\ resp.set_cookie = NoCookie
    /\ envoy.cookies = {SessionCookie}
    /\ Issued.cookies = {SessionCookie}

\* C18: against a gateway that stores the element V of the last accepted PUT
\* as powerForcedOff = (V = 1), once set_power_state(serial, s) has been
\* accepted the gateway holds powerForcedOff = (s is Off), and a completed
\* get_power_state returns true exactly when s is On, false when s is Off.
C18_PowerRoundTrip ==
    history.set # "none" =>
        /\ device.power_forced_off = (history.set = "Off")
        /\ (Called("get_power_state") /\ Completed) =>
              /\ ReturnedOk
              /\ result.ret.value = (history.set = "On")

\* after an accepted set_power_state(Off), get_power_state returned false
C18_Witness ==
    /\ Called("get_power_state")
    /\ Completed
    /\ history.set = "Off"
    /\ device.power_forced_off
    /\ ReturnedOk
    /\ result.ret.value = FALSE

\* the error kinds each operation may return
OwnErrors(op) ==
    CASE op = "login"           -> {"Http"}
      [] op = "login_with_env"  -> {"ConfigurationError", "Http"}
      [] op = "generate_token"  -> {"Http", "InvalidResponse"}
      [] op = "authenticate"    -> {"Http", "AuthenticationFailed"}
      [] op = "set_power_state" -> {"Http", "InvalidResponse"}
      [] op = "get_power_state" -> {"Http", "JsonError"}
      [] OTHER                  -> {}

\* C19: an operation that fails returns one of its own error kinds, and no
\* operation returns IoError.
C19_OwnErrorKinds ==
    result.ret.kind = "Err" =>
        /\ result.ret.err \in OwnErrors(result.op)
        /\ result.ret.err # "IoError"

\* set_power_state answered 401 returned InvalidResponse
C19_Witness ==
    /\ Called("set_power_state")
    /\ resp.sent
    /\ resp.status = 401
    /\ Returned("InvalidResponse")

\* the last call issued one request, with this method, to this path of the
\* client's base URL
IssuedTo(method, client, path) ==
    /\ Len(wire) = 1
    /\ Issued.method = method
    /\ Issued.url = <<client.base_url>> \o path

\* C20: the library enforces no order of calls.  Whatever the caller has
\* been through, each of generate_token, set_power_state and get_power_state
\* can be called, and when called it issues its request: generate_token
\* without a login before it, set_power_state and get_power_state without
\* an authenticate before them or after one that failed.
C20_OrderNotEnforced ==
    /\ Idle =>
          /\ ENABLED Flow_generate_token
          /\ ENABLED Flow_set_power_state
          /\ ENABLED Flow_get_power_state
    /\ Called("generate_token") =>
          IssuedTo("POST", entrez, <<"/entrez_tokens">>)
    /\ Called("set_power_state") =>
          IssuedTo("PUT", envoy,
                   <<"/ivp/mod/", result.args.serial, "/mode/power">>)
    /\ Called("get_power_state") =>
          IssuedTo("GET", envoy,
                   <<"/ivp/mod/", result.args.serial, "/mode/power">>)

\* a token was obtained without any login, authenticate then failed, and
\* set_power_state still sent its PUT and was accepted
C20_Witness ==
    /\ ~history.login
    /\ history.token
    /\ history.authenticate = "failed"
    /\ Called("set_power_state")
    /\ IssuedTo("PUT", envoy, <<"/ivp/mod/", "603980032", "/mode/power">>)
    /\ ReturnedOk

\* the request carries no Authorization header
NoAuthorization(request) == \A h \in request.headers : h[1] # "Authorization"

PowerOps == {"set_power_state", "get_power_state"}

\* C21: authenticate sends Authorization: Bearer {token} on its own request
\* to /auth/check_jwt and keeps nothing of the token: it changes the client
\* by at most the cookie its response set, and every set_power_state and
\* get_power_state request, after an authenticate that succeeded, failed or
\* never happened, carries no Authorization header and the client's cookies.
C21_TokenNotStored ==
    [][ /\ (result'.op = "authenticate" /\ wire' # <<>>) =>
              /\ wire'[1].url = <<envoy.base_url, "/auth/check_jwt">>
              /\ wire'[1].headers
                    = {<<"Authorization", <<"Bearer ", result'.args.token>>>>}
              /\ SameButCookies(envoy, envoy')
              /\ envoy'.cookies \subseteq envoy.cookies \cup {resp'.set_cookie}
        /\ (result'.op \in PowerOps /\ wire' # <<>>) =>
              /\ NoAuthorization(wire'[1])
              /\ wire'[1].cookies = envoy.cookies
      ]_vars

\* after an authenticate that succeeded and set a cookie, get_power_state
\* went out with the cookie and without an Authorization header
C21_Witness ==
    /\ history.authenticate = "ok"
    /\ Called("get_power_state")
    /\ Len(wire) = 1
    /\ NoAuthorization(Issued)
    /\ Issued.cookies = {SessionCookie}

\* C22: the outcome of get_power_state is decided by the response body
\* alone: a body delivered with a status other than 200 gives the outcome
\* the same body gives with 200, and the other way round with 500.  So
\* {"powerForcedOff": false} returns Ok(true) under any status, 401 and 500
\* included, and a body that is not JSON fails with JsonError under 200 too.
C22_PowerStateIgnoresStatus ==
    (Called("get_power_state") /\ Completed) =>
        /\ LET other == IF resp.status = 200 THEN 500 ELSE 200
           IN  get_power_state_returns(
                   Response(other, resp.set_cookie, resp.body)) = result.ret
        /\ resp.body = PFO_FALSE => (ReturnedOk /\ result.ret.value = TRUE)
        /\ resp.body = INVALID_JSON => Returned("JsonError")

\* a 401 whose body is {"powerForcedOff": false} returned Ok(true)
C22_Witness ==
    /\ Called("get_power_state")
    /\ Completed
    /\ resp.status = 401
    /\ resp.body = PFO_FALSE
    /\ ReturnedOk
    /\ result.ret.value = TRUE

====
